---- MODULE Spec2Model ----
(***************************************************************************)
(* The request pipeline declared by the WsServerlessPatternsStack stacks:  *)
(* a REST gateway, a TokenAuthorizer backed by authorizerFunction, the     *)
(* usersFunction Lambda integration and the DynamoDB users table.          *)
(*                                                                         *)
(* The stack declarations (routes, authorizer wiring, table key, IAM       *)
(* grants, environment variables, the admin group parameter) are modelled  *)
(* from the CDK source.  The two Lambda entry points                       *)
(* (./src/api/authorizer/index.ts and ./src/api/users/index.ts) are named  *)
(* by the stacks but their code is not part of the source tree; their      *)
(* behaviour is modelled from sections 4.1, 4.2 and 6 of the               *)
(* specification.                                                          *)
(***************************************************************************)
EXTENDS Integers, FiniteSets, Sequences, TLC

VARIABLES
    stack,              \* which declared stack is deployed
    apiAdminGroupName,  \* value of the CfnParameter 'api-admin-group-name'
    now,                \* the identity issuer's clock
    usersTable,         \* the users table: userid -> attributes, or Absent
    requests,           \* the in-flight requests of the gateway
    lastWrite           \* history: the last completed write per userid

vars == <<stack, apiAdminGroupName, now, usersTable, requests, lastWrite>>

----------------------------------------------------------------------------
(* Bounds of the model *)

NumRequests == 1        \* requests in flight at once under Spec
NumInvocations == 2     \* concurrent invocations under SpecConcurrent
MaxTime == 1            \* the clock runs over 0..MaxTime

Keys == {"u1", "u2"}            \* userid values
AttrSets == {"a1", "a2"}        \* opaque caller-supplied attribute sets
Principals == {"u1"}            \* principals the identity issuer knows
OtherGroupName == "ops"         \* a group name other than the default

Absent == "Absent"
NoKey == "NoKey"
None == "None"
Undefined == "Undefined"
NoBody == [userid |-> NoKey, attrs |-> None]
NoCredential == [kind |-> "none", principal |-> None, groups |-> {}, exp |-> 0]

----------------------------------------------------------------------------
(* The declared stacks *)

\* part_000 declares table, functions, authorizer, API and user pool;
\* lib/ws-serverless-patterns-stack.ts declares an API without authorizer
\* (lines 19-81) and a stack with only the table and usersFunction
\* (lines 100-138).
DeclaredStacks == {"WithAuthorizer", "WithApi", "TableAndFunction"}

\* tableName: `${Aws.STACK_NAME}-users`
tableName(s) == <<s, "users">>

\* variant: the environment names a table the stack does not declare
USERS_TABLE_other(s) == <<s, "customers">>

\* environment: { USERS_TABLE: usersTable.tableName }
USERS_TABLE(s) == tableName(s)

\* variants: grantReadData, grantWriteData, and a grant to both functions
grantReadData(s) == {<<"usersFunction", "read">>}

grantWriteData(s) == {<<"usersFunction", "write">>}

grantBothFunctions(s) ==
    {<<"usersFunction", "read">>, <<"usersFunction", "write">>,
     <<"authorizerFunction", "read">>, <<"authorizerFunction", "write">>}

\* usersTable.grantReadWriteData(usersFunction): the only grant on the table
grantReadWriteData(s) ==
    {<<"usersFunction", "read">>, <<"usersFunction", "write">>}

\* the Lambda functions each stack declares
Functions(s) ==
    IF s = "WithAuthorizer" THEN {"usersFunction", "authorizerFunction"}
    ELSE {"usersFunction"}

\* defaultMethodOptions: { authorizer } of the RestApi, where declared
defaultMethodOptions(s) ==
    IF s = "WithAuthorizer" THEN "authorizerFunction" ELSE Undefined

\* users.addMethod / user.addMethod: <<resource, method>> pairs, all
\* integrated with usersFunction
addMethod(s) ==
    IF s = "TableAndFunction" THEN {}
    ELSE {<<"/users", "GET">>, <<"/users", "POST">>,
          <<"/users/{userid}", "DELETE">>, <<"/users/{userid}", "GET">>,
          <<"/users/{userid}", "PUT">>}

\* default: 'apiAdmins' of the CfnParameter
DefaultAdminGroupName == "apiAdmins"

GroupNames == {DefaultAdminGroupName, OtherGroupName}

\* groupName: apiAdminGroupName.valueAsString
adminGroup(param) == [groupName |-> param]

\* variants: the default name instead of the parameter's value, and the
\* fallback of the || taken always
ADMIN_GROUP_NAME_default(param) == DefaultAdminGroupName

ADMIN_GROUP_NAME_empty(param) == ""

\* authorizerFunction.addEnvironment('ADMIN_GROUP_NAME', adminGroup.groupName || '')
ADMIN_GROUP_NAME(param) ==
    IF adminGroup(param).groupName \in {Undefined, ""} THEN ""
    ELSE adminGroup(param).groupName

----------------------------------------------------------------------------
(* Identity issuer and Authorizer (specification 4.1 and 6) *)

\* The bearer credentials a caller can present: garbage, a token whose
\* signature does not verify (whatever it claims), and tokens the issuer
\* issued, which expire at exp.
Credentials ==
    {[kind |-> "malformed", principal |-> None, groups |-> {}, exp |-> 0]}
    \cup [kind : {"forged"}, principal : Principals,
          groups : {{DefaultAdminGroupName}}, exp : {MaxTime + 1}]
    \cup [kind : {"issued"}, principal : Principals,
          groups : {{}} \cup {{g} : g \in GroupNames}, exp : 1..MaxTime]

\* validate(credential) -> {principal, groups, expiry} | invalid
validate(cred, t) ==
    IF cred.kind # "issued" \/ cred.exp <= t
    THEN [valid |-> FALSE, principal |-> None, groups |-> {}, expiry |-> 0]
    ELSE [valid |-> TRUE, principal |-> cred.principal,
          groups |-> cred.groups, expiry |-> cred.exp]

\* Operations that require elevated privilege: those on another
\* principal's record.
requiresAdmin(principal, method, key) ==
    key # NoKey /\ key # principal

\* variant: the token's claims are decoded and trusted without validation
authorizerHandler_unverified(cred, method, key, t, adminMarker) ==
    IF cred.kind = "malformed" THEN "ERROR"
    ELSE IF requiresAdmin(cred.principal, method, key)
            /\ adminMarker \notin cred.groups THEN "DENY"
    ELSE "ALLOW"

\* The Authorizer's decision for (credential, operation) at time t, with
\* the admin marker it reads from its environment.
authorizerHandler(cred, method, key, t, adminMarker) ==
    LET id == validate(cred, t) IN
    IF ~id.valid THEN "ERROR"
    ELSE IF requiresAdmin(id.principal, method, key)
            /\ adminMarker \notin id.groups THEN "DENY"
    ELSE "ALLOW"

\* What the gateway makes of the verdict: ERROR is treated as DENY.
surfaced(verdict) == IF verdict = "ALLOW" THEN "ALLOW" ELSE "DENY"

----------------------------------------------------------------------------
(* Keyed record store (specification 6) behind the table's IAM grants *)

\* new dynamodb.Table(..., partitionKey: { name: 'userid', type: STRING }):
\* at most one record per userid, none when the table is created
EmptyTable == [k \in Keys |-> Absent]

\* a function may use the table it names iff the table exists and the
\* stack granted it the access
mayAccess(s, fn, name, access) ==
    name = tableName(s) /\ <<fn, access>> \in grantReadWriteData(s)

get(table, k) == table[k]

\* variant: the condition of the put is dropped
put_unconditional(table, k, rec, ifNotExists) ==
    [ok |-> TRUE, table |-> [table EXCEPT ![k] = rec]]

put(table, k, rec, ifNotExists) ==
    IF ifNotExists /\ table[k] # Absent
    THEN [ok |-> FALSE, table |-> table]
    ELSE [ok |-> TRUE, table |-> [table EXCEPT ![k] = rec]]

replace(table, k, rec) ==
    IF table[k] = Absent
    THEN [ok |-> FALSE, table |-> table]
    ELSE [ok |-> TRUE, table |-> [table EXCEPT ![k] = rec]]

delete(table, k) == [table EXCEPT ![k] = Absent]

scan(table) == {<<k, table[k]>> : k \in {x \in Keys : table[x] # Absent}}

----------------------------------------------------------------------------
(* Resource handler (specification 4.2) *)

\* The one policy for DELETE of a missing key: idempotent success.
DeleteMissingOutcome == "OK"

Result(status, attrs, items, table) ==
    [status |-> status, attrs |-> attrs, items |-> items, table |-> table]

\* usersFunction: one read or one write against the table named by its
\* USERS_TABLE environment variable.
usersHandler(s, method, key, body, table) ==
    LET name == USERS_TABLE(s)
        canRead == mayAccess(s, "usersFunction", name, "read")
        canWrite == mayAccess(s, "usersFunction", name, "write")
        Error == Result("ERROR", None, {}, table)
    IN
    CASE method = "GET" /\ key = NoKey ->
            IF ~canRead THEN Error
            ELSE Result("OK", None, scan(table), table)
      [] method = "GET" /\ key # NoKey ->
            IF ~canRead THEN Error
            ELSE IF get(table, key) = Absent
                 THEN Result("NOT_FOUND", None, {}, table)
                 ELSE Result("OK", get(table, key), {}, table)
      [] method = "POST" ->
            IF body = NoBody THEN Error
            ELSE IF ~canWrite THEN Error
            ELSE LET r == put(table, body.userid, body.attrs, TRUE) IN
                 IF r.ok THEN Result("OK", body.attrs, {}, r.table)
                 ELSE Result("CONFLICT", None, {}, table)
      [] method = "PUT" ->
            IF body = NoBody \/ key = NoKey THEN Error
            ELSE IF ~canWrite THEN Error
            ELSE LET r == replace(table, key, body.attrs) IN
                 IF r.ok THEN Result("OK", body.attrs, {}, r.table)
                 ELSE Result("NOT_FOUND", None, {}, table)
      [] method = "DELETE" ->
            IF key = NoKey THEN Error
            ELSE IF ~canWrite THEN Error
            ELSE IF get(table, key) = Absent
                 THEN Result(DeleteMissingOutcome, None, {}, table)
                 ELSE Result("OK", None, {}, delete(table, key))
      [] OTHER -> Error

----------------------------------------------------------------------------
(* The gateway's request pipeline *)

Methods == {"GET", "POST", "PUT", "DELETE"}

\* Inbound request shape: {method, pathKey?, body?, credential}.  A body is
\* read only for POST and PUT; the body of a PUT names the record of its path.
Bodies == [userid : Keys, attrs : AttrSets]

Inbound(creds) ==
    {q \in [method : Methods, key : Keys \cup {NoKey},
            body : Bodies \cup {NoBody}, cred : creds] :
        /\ q.method \in {"GET", "DELETE"} => q.body = NoBody
        /\ (q.method = "PUT" /\ q.body # NoBody /\ q.key # NoKey)
                => q.body.userid = q.key}

resourceOf(key) == IF key = NoKey THEN "/users" ELSE "/users/{userid}"

Idle ==
    [pc |-> "idle", method |-> None, key |-> NoKey, body |-> NoBody,
     cred |-> NoCredential, verdict |-> None,
     status |-> None, attrs |-> None, items |-> {}]

NoWrites == [k \in Keys |-> [op |-> None, attrs |-> None, existed |-> FALSE]]

Init ==
    /\ stack \in DeclaredStacks
    /\ apiAdminGroupName \in
            IF stack = "WithAuthorizer" THEN GroupNames ELSE {Undefined}
    /\ now = 0
    /\ usersTable = EmptyTable
    /\ requests = [r \in 1..NumRequests |-> Idle]
    /\ lastWrite = NoWrites

\* The identity issuer's clock advances.
Tick ==
    /\ now < MaxTime
    /\ now' = now + 1
    /\ UNCHANGED <<stack, apiAdminGroupName, usersTable, requests, lastWrite>>

\* The gateway receives a request and routes it: a method that is not
\* declared on the resource is answered by the gateway itself; a declared
\* one goes to the method's authorizer if it has one, else straight to the
\* integration.
Route(r, q) ==
    /\ requests[r].pc = "idle"
    /\ addMethod(stack) # {}
    /\ requests' = [requests EXCEPT ![r] =
            IF <<resourceOf(q.key), q.method>> \notin addMethod(stack)
            THEN [Idle EXCEPT !.pc = "done", !.method = q.method,
                              !.key = q.key, !.status = "ERROR"]
            ELSE IF defaultMethodOptions(stack) = Undefined
            THEN [Idle EXCEPT !.pc = "invoke", !.method = q.method,
                              !.key = q.key, !.body = q.body]
            ELSE [Idle EXCEPT !.pc = "authorize", !.method = q.method,
                              !.key = q.key, !.body = q.body,
                              !.cred = q.cred]]
    /\ UNCHANGED <<stack, apiAdminGroupName, now, usersTable, lastWrite>>

Receive(r) == \E q \in Inbound(Credentials) : Route(r, q)

\* The TokenAuthorizer invokes authorizerFunction; the gateway answers
\* DENIED itself unless the verdict is ALLOW.
Authorize(r) ==
    /\ requests[r].pc = "authorize"
    /\ LET q == requests[r]
           verdict == authorizerHandler(q.cred, q.method, q.key, now,
                                        ADMIN_GROUP_NAME(apiAdminGroupName))
       IN requests' = [requests EXCEPT ![r] =
            IF surfaced(verdict) = "ALLOW"
            THEN [q EXCEPT !.pc = "invoke", !.verdict = verdict,
                           !.cred = NoCredential]
            ELSE [q EXCEPT !.pc = "done", !.verdict = verdict,
                           !.cred = NoCredential, !.body = NoBody,
                           !.status = "DENIED"]]
    /\ UNCHANGED <<stack, apiAdminGroupName, now, usersTable, lastWrite>>

\* The history of completed writes, per userid: the last POST or PUT that
\* returned OK or DELETE that completed, and whether it found a record.
recordWrite(hist, table, method, key, body, status) ==
    CASE method = "POST" /\ status = "OK" ->
            [hist EXCEPT ![body.userid] =
                [op |-> "POST", attrs |-> body.attrs, existed |-> FALSE]]
      [] method = "PUT" /\ status = "OK" ->
            [hist EXCEPT ![key] =
                [op |-> "PUT", attrs |-> body.attrs, existed |-> TRUE]]
      [] method = "DELETE" /\ status \in {"OK", "NOT_FOUND"} ->
            [hist EXCEPT ![key] =
                [op |-> "DELETE", attrs |-> None,
                 existed |-> table[key] # Absent]]
      [] OTHER -> hist

\* The LambdaIntegration invokes usersFunction.
Invoke(r) ==
    /\ requests[r].pc = "invoke"
    /\ LET q == requests[r]
           res == usersHandler(stack, q.method, q.key, q.body, usersTable)
       IN /\ usersTable' = res.table
          /\ requests' = [requests EXCEPT ![r] =
                [q EXCEPT !.pc = "done", !.status = res.status,
                          !.attrs = res.attrs, !.items = res.items]]
          /\ lastWrite' = recordWrite(lastWrite, usersTable, q.method,
                                      q.key, q.body, res.status)
    /\ UNCHANGED <<stack, apiAdminGroupName, now>>

\* The response is returned to the caller.
Respond(r) ==
    /\ requests[r].pc = "done"
    /\ requests' = [requests EXCEPT ![r] = Idle]
    /\ UNCHANGED <<stack, apiAdminGroupName, now, usersTable, lastWrite>>

Next ==
    \/ Tick
    \/ \E r \in DOMAIN requests : Receive(r)
    \/ \E r \in DOMAIN requests : Authorize(r)
    \/ \E r \in DOMAIN requests : Invoke(r)
    \/ \E r \in DOMAIN requests : Respond(r)

Spec == Init /\ [][Next]_vars

(* Concurrent creation: NumInvocations requests, each a POST, none of them
   handed back, so that every outcome stays visible. *)

InitConcurrent ==
    /\ stack \in DeclaredStacks
    /\ apiAdminGroupName \in
            IF stack = "WithAuthorizer" THEN GroupNames ELSE {Undefined}
    /\ now = 0
    /\ usersTable = EmptyTable
    /\ requests = [r \in 1..NumInvocations |-> Idle]
    /\ lastWrite = NoWrites

\* the callers of the race hold tokens without any group
RacerCredentials ==
    {c \in Credentials : c.kind = "issued" /\ c.groups = {}}

ReceivePost(r) ==
    \E q \in {x \in Inbound(RacerCredentials) :
                x.method = "POST" /\ x.key = NoKey /\ x.body # NoBody} :
        Route(r, q)

NextConcurrent ==
    \/ Tick
    \/ \E r \in DOMAIN requests : ReceivePost(r)
    \/ \E r \in DOMAIN requests : Authorize(r)
    \/ \E r \in DOMAIN requests : Invoke(r)

SpecConcurrent == InitConcurrent /\ [][NextConcurrent]_vars

----------------------------------------------------------------------------
(* Properties *)

AuthorizerStep(r) ==
    requests[r].pc = "authorize" /\ requests'[r].pc # "authorize"

HandlerStep(r) ==
    requests[r].pc = "invoke" /\ requests'[r].pc = "done"

\* a credential the identity issuer accepts at time t
Accepted(cred, t) == cred.kind = "issued" /\ t < cred.exp

\* the admin marker: the name of the user pool group the stack creates
AdminMarker == adminGroup(apiAdminGroupName).groupName

\* C1: the users table changes only in a step of the Resource handler for a
\* request for which the Authorizer produced ALLOW before, on every declared
\* route of every declared stack.
C1_WriteOnlyAfterAllow ==
    [][usersTable' # usersTable =>
        \E r \in DOMAIN requests :
            HandlerStep(r) /\ requests[r].verdict = "ALLOW"]_vars

\* C2: for a credential that is malformed, expired or fails verification,
\* whatever the operation, the Authorizer ends with DENY or ERROR, never
\* ALLOW and never without outcome, and the caller gets DENIED.
C2_InvalidCredentialDenied ==
    [][\A r \in DOMAIN requests :
        (AuthorizerStep(r) /\ ~Accepted(requests[r].cred, now)) =>
            /\ requests'[r].verdict \in {"DENY", "ERROR"}
            /\ surfaced(requests'[r].verdict) = "DENY"
            /\ requests'[r].pc = "done"
            /\ requests'[r].status = "DENIED"]_vars

C2_Witness ==
    \E r \in DOMAIN requests :
        /\ requests[r].pc = "done"
        /\ requests[r].verdict = "ERROR"
        /\ requests[r].status = "DENIED"

\* C3: for a valid, unexpired credential whose groups lack the admin marker,
\* an operation that requires admin privilege gets DENY.
C3_NonAdminDenied ==
    [][\A r \in DOMAIN requests :
        (/\ AuthorizerStep(r)
         /\ Accepted(requests[r].cred, now)
         /\ AdminMarker \notin requests[r].cred.groups
         /\ requiresAdmin(requests[r].cred.principal, requests[r].method,
                          requests[r].key)) =>
            requests'[r].verdict = "DENY"]_vars

C3_Witness ==
    \E r \in DOMAIN requests :
        /\ requests[r].pc = "done"
        /\ requests[r].verdict = "DENY"
        /\ requests[r].key \in Keys \ Principals

\* C4: for a valid credential whose groups contain the admin marker, an
\* operation that requires admin privilege gets ALLOW.
C4_AdminAllowed ==
    [][\A r \in DOMAIN requests :
        (/\ AuthorizerStep(r)
         /\ Accepted(requests[r].cred, now)
         /\ AdminMarker \in requests[r].cred.groups
         /\ requiresAdmin(requests[r].cred.principal, requests[r].method,
                          requests[r].key)) =>
            requests'[r].verdict = "ALLOW"]_vars

C4_Witness ==
    \E r \in DOMAIN requests :
        /\ requests[r].pc = "invoke"
        /\ requests[r].verdict = "ALLOW"
        /\ requests[r].key \in Keys \ Principals

Returned(k) ==
    {r \in DOMAIN requests :
        /\ requests[r].pc = "done"
        /\ requests[r].method = "POST"
        /\ requests[r].status # "DENIED"
        /\ requests[r].body.userid = k}

Created(k) == {r \in Returned(k) : requests[r].status = "OK"}

C10_AuthorizerFrame ==
    [][/\ \A fn \in Functions(stack) : \A access \in {"read", "write"} :
            mayAccess(stack, fn, tableName(stack), access)
                => fn = "usersFunction"
       /\ \A r \in DOMAIN requests :
            AuthorizerStep(r) =>
                /\ usersTable' = usersTable
                /\ lastWrite' = lastWrite
                /\ now' = now
                /\ stack' = stack
                /\ apiAdminGroupName' = apiAdminGroupName
                /\ \A o \in DOMAIN requests \ {r} :
                        requests'[o] = requests[o]
                /\ requests'[r].verdict \in {"ALLOW", "DENY", "ERROR"}]_vars

C10_Witness ==
    /\ \E k \in Keys : usersTable[k] # Absent
    /\ \E r \in DOMAIN requests :
        requests[r].pc = "done" /\ requests[r].verdict = "DENY"

====
